---- MODULE Spec2Model ----
(***************************************************************************)
(* Certificate issuance and verification engine of WipeOut:                *)
(*   backend/src/services/certificateService.js  (CertificateService)      *)
(*   backend/src/services/kmsService.js          (KMSService)              *)
(* with the certificate routes that read what it stores, and the record    *)
(* validator (utils/validation.js) and wipe routes that feed it.           *)
(*                                                                         *)
(* JSON values are tagged tuples: <<"str", s>>, <<"num", n>>,              *)
(* <<"bool", b>>, <<"undef">>, <<"obj", props>> where props is the         *)
(* sequence of <<key, value>> pairs in insertion order.  A SHA-256 hex     *)
(* digest of a text t is <<"sha256", t>> (the hash is taken as injective), *)
(* a base64 string is <<"b64", bytes, form>>.                              *)
(***************************************************************************)
EXTENDS Integers, Sequences, FiniteSets, TLC

VARIABLES env, provider, keyFiles, kms, keyLog,
          file, pdf, gen, busy, issues, tampers,
          tampered, vres, resp, log, fn, req, uploads

vars == <<env, provider, keyFiles, kms, keyLog,
          file, pdf, gen, busy, issues, tampers,
          tampered, vres, resp, log, fn, req, uploads>>

(***************************************************************************)
(* Bounds of the model.                                                    *)
(***************************************************************************)
MaxIssues == 2
MaxTampers == 1
MaxRestarts == 1

Slots == {1, 2}
Ids == {"id1", "id2"}
Timestamps == {"t1"}
Procs == {"p1", "p2"}

(***************************************************************************)
(* JSON values and objects.                                                *)
(***************************************************************************)
Str(s) == <<"str", s>>
Num(n) == <<"num", n>>
Bool(b) == <<"bool", b>>
Undef == <<"undef">>
Obj(props) == <<"obj", props>>

IsObj(v) == v[1] = "obj"
Range(s) == {s[i] : i \in 1..Len(s)}
KeysOf(props) == [i \in 1..Len(props) |-> props[i][1]]
Has(props, k) == \E i \in 1..Len(props) : props[i][1] = k
Get(props, k) ==
    IF Has(props, k)
    THEN props[CHOOSE i \in 1..Len(props) : props[i][1] = k][2]
    ELSE Undef
\* o[k] = v : an existing property keeps its place, a new one is appended
SetProp(props, k, v) ==
    IF Has(props, k)
    THEN [i \in 1..Len(props) |-> IF props[i][1] = k THEN <<k, v>> ELSE props[i]]
    ELSE Append(props, <<k, v>>)
\* delete o[k]
DeleteProp(props, k) == SelectSeq(props, LAMBDA p : p[1] # k)

\* Every property name of the engine in UTF-16 code unit order, the order
\* Array.prototype.sort() gives without a comparator.
AllKeysSorted ==
    <<"algorithm", "certificateId", "coreEngineVersion", "dataHash",
      "deviceId", "duration", "endTime", "ipAddress", "issuer", "metadata",
      "passes", "serialNumber", "serverVersion", "signature", "startTime",
      "status", "submissionId", "submissionTime", "timestamp",
      "verification", "version", "wipeDetails">>
\* Object.keys(data).sort()
SortedKeys(props) ==
    SelectSeq(AllKeysSorted, LAMBDA k : k \in Range(KeysOf(props)))

\* JSON.stringify(value): the text is one-to-one with the tree that is left
\* once the properties whose value is undefined are dropped.
RECURSIVE Stringify(_)
Stringify(v) ==
    IF IsObj(v)
    THEN LET kept == SelectSeq(v[2], LAMBDA p : p[2] # Undef)
         IN  Obj([i \in 1..Len(kept) |-> <<kept[i][1], Stringify(kept[i][2])>>])
    ELSE v

\* JSON.stringify(value, allow) with an array replacer: at EVERY nesting
\* level only the properties named in allow are written, in allow's order.
RECURSIVE StringifyAllow(_, _)
StringifyAllow(v, allow) ==
    IF IsObj(v)
    THEN LET names == SelectSeq(allow,
                        LAMBDA k : Has(v[2], k) /\ Get(v[2], k) # Undef)
         IN  Obj([i \in 1..Len(names) |->
                    <<names[i], StringifyAllow(Get(v[2], names[i]), allow)>>])
    ELSE v

\* JSON.parse(text) of a text JSON.stringify wrote
JSONparse(text) == text

\* crypto.createHash('sha256').update(s).digest('hex')
Sha256Hex(text) == <<"sha256", text>>

\* generateDataHash(data)
generateDataHash(data) == Sha256Hex(StringifyAllow(data, SortedKeys(data[2])))

(***************************************************************************)
(* calculateDuration(startTime, endTime): times are epoch milliseconds.    *)
(***************************************************************************)
\* calculateDuration with duration.asMinutes() for duration.minutes()
calculateDurationTotalMinutes(startTime, endTime) ==
    LET ms == endTime[2] - startTime[2]
        hours == ms \div 3600000
        minutes == ms \div 60000
        seconds == (ms \div 1000) % 60
    IN  IF hours > 0 THEN Str(<<hours, "h ", minutes, "m ", seconds, "s">>)
        ELSE IF minutes > 0 THEN Str(<<minutes, "m ", seconds, "s">>)
        ELSE Str(<<seconds, "s">>)

calculateDuration(startTime, endTime) ==
    LET ms == endTime[2] - startTime[2]
        hours == ms \div 3600000
        minutes == (ms \div 60000) % 60
        seconds == (ms \div 1000) % 60
    IN  IF hours > 0 THEN Str(<<hours, "h ", minutes, "m ", seconds, "s">>)
        ELSE IF minutes > 0 THEN Str(<<minutes, "m ", seconds, "s">>)
        ELSE Str(<<seconds, "s">>)

(***************************************************************************)
(* KMSService: provider selection, signing and signature verification.     *)
(***************************************************************************)
\* The deployments considered: which settings process.env defines.
Envs ==
    { {},
      {"AWS_REGION", "KMS_KEY_ID"},
      {"AWS_REGION", "GOOGLE_CLOUD_PROJECT", "GCP_KMS_KEY"},
      {"GOOGLE_CLOUD_PROJECT", "AZURE_KEY_VAULT_URL"} }

detectProvider(e) ==
    IF "AWS_REGION" \in e /\ "KMS_KEY_ID" \in e THEN "aws"
    ELSE IF "GOOGLE_CLOUD_PROJECT" \in e /\ "GCP_KMS_KEY" \in e THEN "gcp"
    ELSE IF "AZURE_KEY_VAULT_URL" \in e THEN "azure"
    ELSE "local"

\* A key pair is named <<"key", who generated it, its number>>; both files of
\* a pair carry the pair's name.
Key(owner, n) == <<"key", owner, n>>
NoKey == Key("none", 0)
\* the pair a deployment already has
OldKey == Key("old", 0)

\* signature.toString('base64')
ToBase64(bytes) == <<"b64", bytes, 0>>
\* Buffer.from(s, 'base64'): characters outside the alphabet (white space,
\* a missing or extra padding) are skipped, so several strings give the
\* same bytes; form counts such characters.  A value that is no string
\* makes Buffer.from throw.
IsString(v) == v[1] \in {"b64", "str"}
FromBase64(s) == IF s[1] = "b64" THEN s[2] ELSE <<"raw", s>>

\* The RSASSA-PKCS1-v1_5 SHA-256 signature of data under the key pair key:
\* deterministic, one signature per key and message.
RsaSign(key, data) == <<"rsa", key, data>>

\* What the call to the provider can do: answer, or fail (network error,
\* timeout, authorization error, unimplemented backend).
SignOutcomes(p) ==
    CASE p = "local" -> {"ok"}
      [] p = "azure" -> {"error"}
      [] OTHER -> {"ok", "error"}
VerifyOutcomes(p) ==
    CASE p = "local" -> {"ok"}
      [] p = "azure" -> {"error"}
      [] OTHER -> {"ok", "error"}

\* The key the provider p signs with: the local private key, or the key the
\* cloud service holds.
SigningKey(p, k) == IF p = "local" THEN k.localPrivateKey ELSE Key(p, 0)
VerifyingKey(p, k) == IF p = "local" THEN k.localPublicKey ELSE Key(p, 0)

\* signData(data): [ok |-> TRUE, value |-> signature] or a thrown error
signData(p, k, data, outcome) ==
    IF outcome = "ok"
    THEN [ok |-> TRUE, value |-> ToBase64(RsaSign(SigningKey(p, k), data))]
    ELSE [ok |-> FALSE, value |-> Undef]

\* verifySignature with the verdict of the verify call dropped
verifySignatureAnyBytes(p, k, data, signature, outcome) ==
    /\ IsString(signature)
    /\ outcome = "ok"

\* verifySignature(data, signature): every error is caught and gives false
verifySignature(p, k, data, signature, outcome) ==
    /\ IsString(signature)
    /\ outcome = "ok"
    /\ FromBase64(signature) = RsaSign(VerifyingKey(p, k), data)

(***************************************************************************)
(* CertificateService.generateCertificate                                  *)
(***************************************************************************)
\* The wipe records submitted (wipeData, as the submit route hands it over,
\* startTime and endTime as the epoch milliseconds moment() reads them as):
\* a DoD wipe of 90 seconds and a NIST wipe of 42 seconds.
WipeRecords ==
    { [deviceId |-> Str("dev-1"), serialNumber |-> Str("SN1"),
       algorithm |-> Str("dod"), passes |-> Num(3),
       startTime |-> Num(0), endTime |-> Num(90000),
       status |-> Str("success"), verification |-> Undef,
       submissionId |-> Str("sub-1"), serverVersion |-> Str("1.0.0"),
       coreEngineVersion |-> Undef, submissionTime |-> Str("s1"),
       ipAddress |-> Str("10.0.0.1")],
      [deviceId |-> Str("dev-2"), serialNumber |-> Str("SN2"),
       algorithm |-> Str("nist"), passes |-> Num(3),
       startTime |-> Num(1000), endTime |-> Num(43000),
       status |-> Str("success"), verification |-> Bool(TRUE),
       submissionId |-> Str("sub-2"), serverVersion |-> Str("1.0.0"),
       coreEngineVersion |-> Str("2.1"), submissionTime |-> Str("s2"),
       ipAddress |-> Str("10.0.0.2")] }

\* a || b
OrElse(a, b) == IF a \in {Undef, Bool(FALSE)} THEN b ELSE a

Issuer(e) ==
    IF "CERT_ISSUER_NAME" \in e THEN Str("CERT_ISSUER_NAME")
    ELSE Str("Secure Data Solutions")

\* the object literal certificateData
certificateData(e, certificateId, timestamp, wipeData) ==
    Obj(<< <<"certificateId", Str(certificateId)>>,
           <<"timestamp", Str(timestamp)>>,
           <<"version", Str("1.0")>>,
           <<"issuer", Issuer(e)>>,
           <<"wipeDetails", Obj(<<
               <<"deviceId", wipeData.deviceId>>,
               <<"serialNumber", wipeData.serialNumber>>,
               <<"algorithm", wipeData.algorithm>>,
               <<"passes", wipeData.passes>>,
               <<"startTime", wipeData.startTime>>,
               <<"endTime", wipeData.endTime>>,
               <<"duration",
                 calculateDuration(wipeData.startTime, wipeData.endTime)>>,
               <<"status", wipeData.status>>,
               <<"verification", OrElse(wipeData.verification, Bool(FALSE))>>,
               <<"submissionId", wipeData.submissionId>> >>)>>,
           <<"metadata", Obj(<<
               <<"serverVersion", wipeData.serverVersion>>,
               <<"coreEngineVersion",
                 OrElse(wipeData.coreEngineVersion, Str("Unknown"))>>,
               <<"submissionTime", wipeData.submissionTime>>,
               <<"ipAddress", wipeData.ipAddress>> >>)>> >>)

\* certificateData.dataHash = this.generateDataHash(certificateData)
WithDataHash(data) ==
    Obj(SetProp(data[2], "dataHash", generateDataHash(data)))

NoData == Obj(<< >>)
IdleCall == [pc |-> "idle", id |-> "none", data |-> NoData]
InFlight == {"sign", "qr", "pdf", "writing"}
\* a call that returned ("done") or threw ("failed"): its locals are gone
Ended(c, how) == [pc |-> how, id |-> gen[c].id, data |-> NoData]

AbsentFile == [state |-> "absent", data |-> NoData]
PartialFile == [state |-> "partial", data |-> NoData]
CompleteFile(text) == [state |-> "complete", data |-> text]

\* what verifyCertificate returns, and how it came to it
Verdict(valid, error, kmsCalled, data) ==
    [valid |-> valid, error |-> error, threw |-> FALSE,
     kmsCalled |-> kmsCalled, certificateData |-> data]

\* the answer of the verifyCertificate call that has just returned, if one
\* has: no verification has returned in this step
NoVerify ==
    [called |-> FALSE, id |-> "none", loaded |-> AbsentFile, tampered |-> {},
     outcome |-> "none",
     result |-> Verdict(FALSE, "", FALSE, NoData)]

\* the answer of the route that has just answered a request, if one has
NoResponse ==
    [route |-> "none", id |-> "none", status |-> 0, certificates |-> {},
     body |-> NoData]

\* the request a wipe route is serving, if it is: the route awaits the
\* generateCertificate call it made in slot; served counts the requests
NoWipeData == [status |-> Undef]
NoRequest ==
    [pc |-> "idle", route |-> "none", wipeData |-> NoWipeData, slot |-> 0,
     served |-> 0]

\* the lines the logger has been given by KMSService.detectProvider
LocalWarning == "No KMS provider configured, using local signing"
warned(p) == IF p = "local" THEN <<LocalWarning>> ELSE << >>

\* no function of the validation module has been applied
NoResult == [isValid |-> FALSE, errors |-> << >>, data |-> << >>]
NoFn == [in |-> NoData, other |-> NoData, done |-> {}, hashed |-> NoData,
         signed |-> NoData, result |-> NoResult, duration |-> Str(<< >>)]

\* a step that answers no request, logs nothing and applies no function
Quiet ==
    /\ vres' = NoVerify
    /\ resp' = NoResponse
    /\ UNCHANGED <<log, fn, req, uploads>>

\* uuidv4(); new Date().toISOString(); the object literal; the data hash;
\* then the call to kmsService.signData is awaited
GenStart(c, wipeData, certificateId, timestamp) ==
    /\ busy = 0
    /\ gen[c].pc \notin InFlight
    /\ \A d \in Slots : d < c => gen[d].pc \in InFlight
    /\ issues < MaxIssues
    /\ issues' = issues + 1
    /\ gen' = [gen EXCEPT ![c] =
                [pc |-> "sign", id |-> certificateId,
                 data |-> WithDataHash(
                     certificateData(env, certificateId, timestamp, wipeData))]]
    /\ UNCHANGED <<env, provider, keyFiles, kms, keyLog, file, pdf, busy,
                   tampers, tampered>>
    /\ Quiet

\* GenSignReturn with the provider detected anew by every signData call
GenSignReturnRedetect(c, outcome) ==
    /\ busy = 0
    /\ gen[c].pc = "sign"
    /\ outcome \in SignOutcomes(detectProvider(env))
    /\ provider' = detectProvider(env)
    /\ LET r == signData(detectProvider(env), kms["p1"],
                         Stringify(gen[c].data), outcome)
       IN  gen' = [gen EXCEPT ![c] =
                IF r.ok
                THEN [@ EXCEPT !.pc = "qr",
                               !.data = Obj(SetProp(@[2], "signature", r.value))]
                ELSE Ended(c, "failed")]
    /\ UNCHANGED <<env, keyFiles, kms, keyLog, file, pdf, busy,
                   issues, tampers, tampered>>
    /\ Quiet

\* signData answers: certificateData.signature = signature, and
\* QRCode.toDataURL is awaited; or signData throws and the catch rethrows
GenSignReturn(c, outcome) ==
    /\ busy = 0
    /\ gen[c].pc = "sign"
    /\ outcome \in SignOutcomes(provider)
    /\ LET r == signData(provider, kms["p1"], Stringify(gen[c].data), outcome)
       IN  gen' = [gen EXCEPT ![c] =
                IF r.ok
                THEN [@ EXCEPT !.pc = "qr",
                               !.data = Obj(SetProp(@[2], "signature", r.value))]
                ELSE Ended(c, "failed")]
    /\ UNCHANGED <<env, provider, keyFiles, kms, keyLog, file, pdf, busy,
                   issues, tampers, tampered>>
    /\ Quiet

\* the QR code is ready: generatePDF opens the stream on <id>.pdf
GenQrReturn(c) ==
    /\ busy = 0
    /\ gen[c].pc = "qr"
    /\ gen' = [gen EXCEPT ![c].pc = "pdf"]
    /\ pdf' = [pdf EXCEPT ![gen[c].id] = "partial"]
    /\ UNCHANGED <<env, provider, keyFiles, kms, keyLog, file, busy,
                   issues, tampers, tampered>>
    /\ Quiet

\* QRCode.toDataURL rejects
GenQrError(c) ==
    /\ busy = 0
    /\ gen[c].pc = "qr"
    /\ gen' = [gen EXCEPT ![c] = Ended(c, "failed")]
    /\ UNCHANGED <<env, provider, keyFiles, kms, keyLog, file, pdf, busy,
                   issues, tampers, tampered>>
    /\ Quiet

\* the PDF stream emits 'error': generatePDF rejects
GenPdfError(c) ==
    /\ busy = 0
    /\ gen[c].pc = "pdf"
    /\ gen' = [gen EXCEPT ![c] = Ended(c, "failed")]
    /\ UNCHANGED <<env, provider, keyFiles, kms, keyLog, file, pdf, busy,
                   issues, tampers, tampered>>
    /\ Quiet

\* the PDF stream emits 'finish'; fs.writeFileSync opens <id>.json with
\* flag 'w', which creates the file or truncates the one that is there
GenPdfFinish(c) ==
    /\ busy = 0
    /\ gen[c].pc = "pdf"
    /\ gen' = [gen EXCEPT ![c].pc = "writing"]
    /\ busy' = c
    /\ pdf' = [pdf EXCEPT ![gen[c].id] = "complete"]
    /\ file' = [file EXCEPT ![gen[c].id] = PartialFile]
    /\ tampered' = [tampered EXCEPT ![gen[c].id] = {}]
    /\ UNCHANGED <<env, provider, keyFiles, kms, keyLog,
                   issues, tampers>>
    /\ Quiet

\* what fs.writeFileSync is given: the call's own certificateData
WritePayloadShared(c) ==
    IF \E d \in Slots : d # c /\ Has(gen[d].data[2], "signature")
    THEN LET d == CHOOSE d \in Slots : d # c /\ Has(gen[d].data[2], "signature")
         IN  Obj(SetProp(gen[c].data[2], "signature",
                         Get(gen[d].data[2], "signature")))
    ELSE gen[c].data
WritePayload(c) == gen[c].data

\* fs.writeFileSync has written everything; generateCertificate returns
GenWriteEnd(c) ==
    /\ busy = c
    /\ gen[c].pc = "writing"
    /\ gen' = [gen EXCEPT ![c] = Ended(c, "done")]
    /\ busy' = 0
    /\ file' = [file EXCEPT ![gen[c].id] = CompleteFile(Stringify(WritePayload(c)))]
    /\ UNCHANGED <<env, provider, keyFiles, kms, keyLog, pdf,
                   issues, tampers, tampered>>
    /\ Quiet

\* fs.writeFileSync throws part way (disk full, I/O error)
GenWriteError(c) ==
    /\ busy = c
    /\ gen[c].pc = "writing"
    /\ gen' = [gen EXCEPT ![c] = Ended(c, "failed")]
    /\ busy' = 0
    /\ UNCHANGED <<env, provider, keyFiles, kms, keyLog, file, pdf,
                   issues, tampers, tampered>>
    /\ Quiet

\* the process dies with calls in flight and is started again: the files
\* stay as they are, the calls are gone
Crash ==
    /\ \E c \in Slots : gen[c].pc \in InFlight
    /\ gen' = [c \in Slots |-> IdleCall]
    /\ busy' = 0
    /\ UNCHANGED <<env, provider, keyFiles, kms, keyLog, file, pdf,
                   issues, tampers, tampered>>
    /\ Quiet

(***************************************************************************)
(* CertificateService.verifyCertificate                                    *)
(***************************************************************************)
\* const dataToVerify = { ...certificateData }; delete dataToVerify.signature
dataToVerify(data) == Obj(DeleteProp(data[2], "signature"))

\* without the fs.existsSync test: readFileSync throws, the catch answers
verifyCertificateNoExistsTest(p, k, f, outcome) ==
    IF f.state # "complete"
    THEN Verdict(FALSE, "Verification failed", FALSE, NoData)
    ELSE LET data == JSONparse(f.data)
         IN  IF ~verifySignature(p, k, Stringify(dataToVerify(data)),
                                 Get(data[2], "signature"), outcome)
             THEN Verdict(FALSE, "Invalid signature", TRUE, NoData)
             ELSE IF generateDataHash(dataToVerify(data))
                        # Get(data[2], "dataHash")
             THEN Verdict(FALSE, "Data integrity check failed", TRUE, NoData)
             ELSE Verdict(TRUE, "", TRUE, data)

\* verifyCertificate with the hash compared before the signature is verified
verifyCertificateHashFirst(p, k, f, outcome) ==
    IF f.state = "absent"
    THEN Verdict(FALSE, "Certificate not found", FALSE, NoData)
    ELSE IF f.state = "partial"
    THEN Verdict(FALSE, "Verification failed", FALSE, NoData)
    ELSE LET data == JSONparse(f.data)
         IN  IF generateDataHash(dataToVerify(data)) # Get(data[2], "dataHash")
             THEN Verdict(FALSE, "Data integrity check failed", FALSE, NoData)
             ELSE IF ~verifySignature(p, k, Stringify(dataToVerify(data)),
                                      Get(data[2], "signature"), outcome)
             THEN Verdict(FALSE, "Invalid signature", TRUE, NoData)
             ELSE Verdict(TRUE, "", TRUE, data)

\* verifyCertificate(certificateId) on the file f stored for the id, the
\* provider's verify call ending as outcome
verifyCertificate(p, k, f, outcome) ==
    IF f.state = "absent"
    THEN Verdict(FALSE, "Certificate not found", FALSE, NoData)
    ELSE IF f.state = "partial"
    \* JSON.parse throws on a text cut short; the catch answers
    THEN Verdict(FALSE, "Verification failed", FALSE, NoData)
    ELSE LET data == JSONparse(f.data)
         IN  IF ~verifySignature(p, k, Stringify(dataToVerify(data)),
                                 Get(data[2], "signature"), outcome)
             THEN Verdict(FALSE, "Invalid signature", TRUE, NoData)
             ELSE IF generateDataHash(dataToVerify(data))
                        # Get(data[2], "dataHash")
             THEN Verdict(FALSE, "Data integrity check failed", TRUE, NoData)
             ELSE Verdict(TRUE, "", TRUE, data)

\* One call of verifyCertificate.  The stored file is read once, before the
\* provider is awaited, and nothing is written: what the call returns depends
\* only on what it read and on how the provider's verify call ends.
VerifyCertificate(certificateId, outcome) ==
    /\ busy = 0
    /\ outcome \in VerifyOutcomes(provider)
    /\ LET r == verifyCertificate(provider, kms["p1"], file[certificateId], outcome)
       IN  vres' = [called |-> TRUE, id |-> certificateId,
                    loaded |-> file[certificateId],
                    tampered |-> tampered[certificateId],
                    outcome |-> IF r.kmsCalled THEN outcome ELSE "none",
                    result |-> r]
    /\ resp' = NoResponse
    /\ UNCHANGED <<env, provider, keyFiles, kms, keyLog, file, pdf, gen, busy,
                   issues, tampers, tampered, log, fn, req, uploads>>

(***************************************************************************)
(* The certificate routes that read the certificates directory.            *)
(***************************************************************************)
\* GET /download/:certificateId: 404 unless <id>.pdf and <id>.json exist; the
\* metadata is parsed for the file name (a text cut short makes JSON.parse
\* throw: 500) and the PDF is sent
Download(certificateId) ==
    /\ busy = 0
    /\ resp' = [route |-> "download", id |-> certificateId,
                status |-> IF pdf[certificateId] = "absent"
                              \/ file[certificateId].state = "absent"
                           THEN 404
                           ELSE IF file[certificateId].state = "partial"
                           THEN 500
                           ELSE 200,
                certificates |-> {}, body |-> NoData]
    /\ vres' = NoVerify
    /\ UNCHANGED <<env, provider, keyFiles, kms, keyLog, file, pdf, gen, busy,
                   issues, tampers, tampered, log, fn, req, uploads>>

\* the entry GET /list makes of one parsed <id>.json
ListEntry(text) ==
    [certificateId |-> Get(text[2], "certificateId"),
     deviceId |-> Get(Get(text[2], "wipeDetails")[2], "deviceId"),
     status |-> Get(Get(text[2], "wipeDetails")[2], "status"),
     algorithm |-> Get(Get(text[2], "wipeDetails")[2], "algorithm"),
     timestamp |-> Get(text[2], "timestamp"),
     issuer |-> Get(text[2], "issuer")]

\* GET /list: every *.json of the directory that parses
ListCertificates ==
    /\ busy = 0
    /\ resp' = [route |-> "list", id |-> "none", status |-> 200,
                certificates |->
                   {ListEntry(JSONparse(file[i].data)) :
                      i \in {j \in Ids : file[j].state = "complete"}},
                body |-> NoData]
    /\ vres' = NoVerify
    /\ UNCHANGED <<env, provider, keyFiles, kms, keyLog, file, pdf, gen, busy,
                   issues, tampers, tampered, log, fn, req, uploads>>

(***************************************************************************)
(* Somebody edits a stored <id>.json (the file stays JSON).                *)
(***************************************************************************)
DataFields == {"wipeDetails", "metadata", "timestamp", "issuer"}
TamperKinds == DataFields \cup {"signature", "signatureEncoding"}

SetNested(props, k, inner, v) ==
    SetProp(props, k, Obj(SetProp(Get(props, k)[2], inner, v)))

Tampering(text, kind) ==
    LET props == text[2]
        sig == Get(props, "signature")
    IN  Obj(CASE kind = "wipeDetails" ->
                   SetNested(props, "wipeDetails", "deviceId", Str("dev-9"))
             [] kind = "metadata" ->
                   SetNested(props, "metadata", "ipAddress", Str("10.9.9.9"))
             [] kind = "timestamp" -> SetProp(props, "timestamp", Str("t9"))
             [] kind = "issuer" -> SetProp(props, "issuer", Str("Somebody"))
             [] kind = "signature" ->
                   SetProp(props, "signature",
                           ToBase64(RsaSign(Key("forger", 0), NoData)))
             [] kind = "signatureEncoding" ->
                   SetProp(props, "signature", <<"b64", sig[2], sig[3] + 1>>)
             [] kind = "dataHash" ->
                   SetProp(props, "dataHash", Sha256Hex(NoData))
             [] kind = "noSignature" -> DeleteProp(props, "signature")
             [] kind = "noDataHash" -> DeleteProp(props, "dataHash")
             [] kind = "unparseable" -> props)

Tamper(certificateId, kind) ==
    /\ tampers < MaxTampers
    /\ file[certificateId].state = "complete"
    /\ kind \notin tampered[certificateId]
    /\ tampers' = tampers + 1
    /\ file' = [file EXCEPT ![certificateId] =
                  IF kind = "unparseable"
                  \* the text is cut short or garbled: JSON.parse will throw
                  THEN PartialFile
                  ELSE CompleteFile(Tampering(@.data, kind))]
    /\ tampered' = [tampered EXCEPT ![certificateId] = @ \cup {kind}]
    /\ UNCHANGED <<env, provider, keyFiles, kms, keyLog, pdf, gen, busy,
                   issues>>
    /\ Quiet

(***************************************************************************)
(* The service after construction.                                         *)
(***************************************************************************)
ReadyKms(key) ==
    [pc |-> "ready", localPrivateKey |-> key, localPublicKey |-> key,
     generated |-> NoKey, restarts |-> 0]

Init ==
    /\ env \in Envs
    /\ provider = detectProvider(env)
    /\ keyFiles = IF provider = "local"
                  THEN [private |-> OldKey, public |-> OldKey]
                  ELSE [private |-> NoKey, public |-> NoKey]
    /\ kms = [p \in Procs |->
                ReadyKms(IF provider = "local" THEN OldKey ELSE NoKey)]
    /\ keyLog = {}
    /\ file = [i \in Ids |-> AbsentFile]
    /\ pdf = [i \in Ids |-> "absent"]
    /\ gen = [c \in Slots |-> IdleCall]
    /\ busy = 0
    /\ issues = 0
    /\ tampers = 0
    /\ tampered = [i \in Ids |-> {}]
    /\ vres = NoVerify
    /\ resp = NoResponse
    /\ req = NoRequest
    /\ uploads = {}
    /\ log = warned(provider)
    /\ fn = NoFn

Next ==
    \/ \E c \in Slots, w \in WipeRecords, i \in Ids, t \in Timestamps :
          GenStart(c, w, i, t)
    \/ \E c \in Slots, o \in {"ok", "error"} : GenSignReturn(c, o)
    \/ \E c \in Slots : GenQrReturn(c)
    \/ \E c \in Slots : GenQrError(c)
    \/ \E c \in Slots : GenPdfError(c)
    \/ \E c \in Slots : GenPdfFinish(c)
    \/ \E c \in Slots : GenWriteEnd(c)
    \/ \E c \in Slots : GenWriteError(c)
    \/ Crash
    \/ \E i \in Ids, o \in {"ok", "error"} : VerifyCertificate(i, o)
    \/ \E i \in Ids : Download(i)
    \/ ListCertificates

Spec == Init /\ [][Next]_vars

\* one generateCertificate call at a time
GenStartAlone(c, wipeData, certificateId, timestamp) ==
    /\ \A d \in Slots : gen[d].pc \notin InFlight
    /\ GenStart(c, wipeData, certificateId, timestamp)

NextTamper ==
    \/ \E c \in Slots, w \in WipeRecords, i \in Ids, t \in Timestamps :
          GenStartAlone(c, w, i, t)
    \/ \E c \in Slots, o \in {"ok", "error"} : GenSignReturn(c, o)
    \/ \E c \in Slots : GenQrReturn(c)
    \/ \E c \in Slots : GenQrError(c)
    \/ \E c \in Slots : GenPdfError(c)
    \/ \E c \in Slots : GenPdfFinish(c)
    \/ \E c \in Slots : GenWriteEnd(c)
    \/ \E c \in Slots : GenWriteError(c)
    \/ Crash
    \/ \E i \in Ids, o \in {"ok", "error"} : VerifyCertificate(i, o)
    \/ \E i \in Ids, k \in TamperKinds : Tamper(i, k)

SpecTamper == Init /\ [][NextTamper]_vars

\* the stored dataHash is replaced, dataHash or signature is removed, or the
\* file is left unparseable
ForgeKinds == {"dataHash", "noSignature", "noDataHash", "unparseable"}

NextForge ==
    \/ \E c \in Slots, w \in WipeRecords, i \in Ids, t \in Timestamps :
          GenStartAlone(c, w, i, t)
    \/ \E c \in Slots, o \in {"ok", "error"} : GenSignReturn(c, o)
    \/ \E c \in Slots : GenQrReturn(c)
    \/ \E c \in Slots : GenQrError(c)
    \/ \E c \in Slots : GenPdfError(c)
    \/ \E c \in Slots : GenPdfFinish(c)
    \/ \E c \in Slots : GenWriteEnd(c)
    \/ \E c \in Slots : GenWriteError(c)
    \/ \E i \in Ids, o \in {"ok", "error"} : VerifyCertificate(i, o)
    \/ \E i \in Ids, k \in ForgeKinds : Tamper(i, k)

SpecForge == Init /\ [][NextForge]_vars

(***************************************************************************)
(* KMSService.initializeLocalKeys, run by the constructor of each process  *)
(* that starts with the local provider on the shared key directory.        *)
(***************************************************************************)
StartingKms ==
    [pc |-> "existsPrivate", localPrivateKey |-> NoKey,
     localPublicKey |-> NoKey, generated |-> NoKey, restarts |-> 0]

KeyDirs ==
    { [private |-> NoKey, public |-> NoKey],
      [private |-> OldKey, public |-> OldKey],
      [private |-> OldKey, public |-> NoKey],
      [private |-> NoKey, public |-> OldKey] }

\* crypto.generateKeyPairSync: a new pair each time
generateKeyPairSync(p) == Key(p, kms[p].restarts + 1)

KeyFrame ==
    /\ Quiet
    /\ UNCHANGED <<env, provider, file, pdf, gen, busy, issues, tampers,
                   tampered>>

\* !fs.existsSync(privateKeyPath) || ...
KExistsPrivate(p) ==
    /\ kms[p].pc = "existsPrivate"
    /\ kms' = [kms EXCEPT ![p] =
                IF keyFiles.private = NoKey
                THEN [@ EXCEPT !.pc = "writePrivate",
                               !.generated = generateKeyPairSync(p)]
                ELSE [@ EXCEPT !.pc = "existsPublic"]]
    /\ UNCHANGED <<keyFiles, keyLog>>
    /\ KeyFrame

\* ... || !fs.existsSync(publicKeyPath)
KExistsPublic(p) ==
    /\ kms[p].pc = "existsPublic"
    /\ kms' = [kms EXCEPT ![p] =
                IF keyFiles.public = NoKey
                THEN [@ EXCEPT !.pc = "writePrivate",
                               !.generated = generateKeyPairSync(p)]
                ELSE [@ EXCEPT !.pc = "readPrivate"]]
    /\ UNCHANGED <<keyFiles, keyLog>>
    /\ KeyFrame

\* fs.writeFileSync(privateKeyPath, privateKey)
KWritePrivate(p) ==
    /\ kms[p].pc = "writePrivate"
    /\ keyFiles' = [keyFiles EXCEPT !.private = kms[p].generated]
    /\ keyLog' = keyLog \cup {<<p, "private", keyFiles.private>>}
    /\ kms' = [kms EXCEPT ![p].pc = "writePublic"]
    /\ KeyFrame

\* fs.writeFileSync(publicKeyPath, publicKey)
KWritePublic(p) ==
    /\ kms[p].pc = "writePublic"
    /\ keyFiles' = [keyFiles EXCEPT !.public = kms[p].generated]
    /\ keyLog' = keyLog \cup {<<p, "public", keyFiles.public>>}
    /\ kms' = [kms EXCEPT ![p].pc = "readPrivate"]
    /\ KeyFrame

\* this.localPrivateKey = fs.readFileSync(privateKeyPath, 'utf8')
KReadPrivate(p) ==
    /\ kms[p].pc = "readPrivate"
    /\ kms' = [kms EXCEPT ![p].pc = "readPublic",
                          ![p].localPrivateKey = keyFiles.private]
    /\ UNCHANGED <<keyFiles, keyLog>>
    /\ KeyFrame

\* this.localPublicKey = fs.readFileSync(publicKeyPath, 'utf8')
KReadPublic(p) ==
    /\ kms[p].pc = "readPublic"
    /\ kms' = [kms EXCEPT ![p].pc = "ready",
                          ![p].localPublicKey = keyFiles.public]
    /\ UNCHANGED <<keyFiles, keyLog>>
    /\ KeyFrame

\* the process is stopped and started again
KRestart(p) ==
    /\ kms[p].pc = "ready"
    /\ kms[p].restarts < MaxRestarts
    /\ kms' = [kms EXCEPT ![p] =
                [StartingKms EXCEPT !.restarts = kms[p].restarts + 1]]
    /\ UNCHANGED <<keyFiles, keyLog>>
    /\ KeyFrame

InitKeys ==
    /\ env = {}
    /\ provider = detectProvider(env)
    /\ keyFiles \in KeyDirs
    /\ kms = [p \in Procs |-> StartingKms]
    /\ keyLog = {}
    /\ file = [i \in Ids |-> AbsentFile]
    /\ pdf = [i \in Ids |-> "absent"]
    /\ gen = [c \in Slots |-> IdleCall]
    /\ busy = 0
    /\ issues = 0
    /\ tampers = 0
    /\ tampered = [i \in Ids |-> {}]
    /\ vres = NoVerify
    /\ resp = NoResponse
    /\ req = NoRequest
    /\ uploads = {}
    /\ log = warned(provider)
    /\ fn = NoFn

NextKeys ==
    \/ \E p \in Procs : KExistsPrivate(p)
    \/ \E p \in Procs : KExistsPublic(p)
    \/ \E p \in Procs : KWritePrivate(p)
    \/ \E p \in Procs : KWritePublic(p)
    \/ \E p \in Procs : KReadPrivate(p)
    \/ \E p \in Procs : KReadPublic(p)
    \/ \E p \in Procs : KRestart(p)

SpecKeys == InitKeys /\ [][NextKeys]_vars

(***************************************************************************)
(* The KMSService is constructed (module.exports = new KMSService()) under *)
(* any combination of the provider settings, then data is signed.          *)
(***************************************************************************)
Settings ==
    {"AWS_REGION", "KMS_KEY_ID", "GOOGLE_CLOUD_PROJECT", "GCP_KMS_KEY_RING",
     "GCP_KMS_KEY", "AZURE_KEY_VAULT_URL"}

\* The settings a provider cannot work without: those initializeProvider and
\* the sign functions read and have no default for.
RequiredSettings(p) ==
    CASE p = "aws" -> {"AWS_REGION", "KMS_KEY_ID"}
      [] p = "gcp" -> {"GOOGLE_CLOUD_PROJECT", "GCP_KMS_KEY_RING", "GCP_KMS_KEY"}
      [] p = "azure" -> {"AZURE_KEY_VAULT_URL"}

\* constructor(): this.provider = this.detectProvider(), which warns when it
\* answers 'local'; this.initializeProvider(), which reads the local keys
PConstruct ==
    /\ provider = "none"
    /\ provider' = detectProvider(env)
    /\ log' = log \o warned(detectProvider(env))
    /\ kms' = [p \in Procs |->
                 ReadyKms(IF detectProvider(env) = "local"
                          THEN keyFiles.private ELSE NoKey)]
    /\ vres' = NoVerify
    /\ resp' = NoResponse
    /\ UNCHANGED <<env, keyFiles, keyLog, file, pdf, gen, busy, issues,
                   tampers, tampered, fn,
                   req, uploads>>

\* generateCertificate is called once the services are loaded
GenStartLoaded(c, wipeData, certificateId, timestamp) ==
    /\ provider # "none"
    /\ GenStartAlone(c, wipeData, certificateId, timestamp)

InitProvider ==
    /\ env \in SUBSET Settings
    /\ provider = "none"
    /\ keyFiles = [private |-> OldKey, public |-> OldKey]
    /\ kms = [p \in Procs |-> StartingKms]
    /\ keyLog = {}
    /\ file = [i \in Ids |-> AbsentFile]
    /\ pdf = [i \in Ids |-> "absent"]
    /\ gen = [c \in Slots |-> IdleCall]
    /\ busy = 0
    /\ issues = 0
    /\ tampers = 0
    /\ tampered = [i \in Ids |-> {}]
    /\ vres = NoVerify
    /\ resp = NoResponse
    /\ req = NoRequest
    /\ uploads = {}
    /\ log = << >>
    /\ fn = NoFn

NextProvider ==
    \/ PConstruct
    \/ \E c \in Slots, w \in WipeRecords, i \in Ids, t \in Timestamps :
          GenStartLoaded(c, w, i, t)
    \/ \E c \in Slots, o \in {"ok", "error"} : GenSignReturn(c, o)

SpecProvider == InitProvider /\ [][NextProvider]_vars

(***************************************************************************)
(* The settings of process.env change while the process runs.              *)
(***************************************************************************)
Reconfigure(e) ==
    /\ provider # "none"
    /\ e # env
    /\ env' = e
    /\ UNCHANGED <<provider, keyFiles, kms, keyLog, file, pdf, gen, busy,
                   issues, tampers, tampered>>
    /\ Quiet

NotImplemented ==
    Str("Public key retrieval not implemented for cloud providers in this demo")

\* getPublicKey()
getPublicKey(p, k) == IF p = "local" THEN k.localPublicKey ELSE NotImplemented

\* GET /public-key
GetPublicKey ==
    /\ provider # "none"
    /\ resp' = [route |-> "public-key", id |-> "none", status |-> 200,
                certificates |-> {}, body |-> getPublicKey(provider, kms["p1"])]
    /\ vres' = NoVerify
    /\ UNCHANGED <<env, provider, keyFiles, kms, keyLog, file, pdf, gen, busy,
                   issues, tampers, tampered, log, fn, req, uploads>>

\* verifyCertificate is called once the services are loaded
VerifyLoaded(certificateId, outcome) ==
    /\ provider # "none"
    /\ VerifyCertificate(certificateId, outcome)

NextReconfigure ==
    \/ PConstruct
    \/ \E c \in Slots, w \in WipeRecords, i \in Ids, t \in Timestamps :
          GenStartLoaded(c, w, i, t)
    \/ \E c \in Slots, o \in {"ok", "error"} : GenSignReturn(c, o)
    \/ \E c \in Slots : GenQrReturn(c)
    \/ \E c \in Slots : GenPdfFinish(c)
    \/ \E c \in Slots : GenWriteEnd(c)
    \/ \E i \in Ids, o \in {"ok", "error"} : VerifyLoaded(i, o)
    \/ GetPublicKey
    \/ \E e \in Envs : Reconfigure(e)

SpecReconfigure == InitProvider /\ [][NextReconfigure]_vars

(***************************************************************************)
(* The bytes generateCertificate hashes and the bytes it signs, for one    *)
(* payload built in two key orders.                                        *)
(***************************************************************************)
Orders == {"same", "reversed", "rotated", "swapped"}

\* the properties props, inserted in another order
Reordered(props, how) ==
    CASE how = "same" -> props
      [] how = "reversed" -> [i \in 1..Len(props) |-> props[Len(props) + 1 - i]]
      [] how = "rotated" -> Append(Tail(props), Head(props))
      [] how = "swapped" ->
            <<props[2], props[1]>> \o SubSeq(props, 3, Len(props))

\* certificateData with its own, its wipeDetails' and its metadata's
\* properties inserted in another order
Rebuilt(data, top, wd, md) ==
    LET p1 == SetProp(data[2], "wipeDetails",
                      Obj(Reordered(Get(data[2], "wipeDetails")[2], wd)))
        p2 == SetProp(p1, "metadata",
                      Obj(Reordered(Get(p1, "metadata")[2], md)))
    IN  Obj(Reordered(p2, top))

\* a step of a function that touches nothing of the services
PureFrame ==
    /\ vres' = NoVerify
    /\ resp' = NoResponse
    /\ UNCHANGED <<env, provider, keyFiles, kms, keyLog, file, pdf, gen, busy,
                   issues, tampers, tampered, log,
                   req, uploads>>

\* this.generateDataHash(certificateData)
CanonHash ==
    /\ "hash" \notin fn.done
    /\ fn' = [fn EXCEPT !.done = @ \cup {"hash"},
                        !.hashed = [a |-> generateDataHash(fn.in),
                                    b |-> generateDataHash(fn.other)]]
    /\ PureFrame

\* what kmsService.signData is given: JSON.stringify(certificateData), the
\* data hash set
CanonSign ==
    /\ "sign" \notin fn.done
    /\ fn' = [fn EXCEPT !.done = @ \cup {"sign"},
                        !.signed = [a |-> Stringify(WithDataHash(fn.in)),
                                    b |-> Stringify(WithDataHash(fn.other))]]
    /\ PureFrame

InitCanon ==
    /\ env = {}
    /\ provider = detectProvider(env)
    /\ keyFiles = [private |-> OldKey, public |-> OldKey]
    /\ kms = [p \in Procs |-> ReadyKms(OldKey)]
    /\ keyLog = {}
    /\ file = [i \in Ids |-> AbsentFile]
    /\ pdf = [i \in Ids |-> "absent"]
    /\ gen = [c \in Slots |-> IdleCall]
    /\ busy = 0
    /\ issues = 0
    /\ tampers = 0
    /\ tampered = [i \in Ids |-> {}]
    /\ vres = NoVerify
    /\ resp = NoResponse
    /\ req = NoRequest
    /\ uploads = {}
    /\ log = warned(provider)
    /\ \E w \in WipeRecords, top \in Orders, wd \in Orders, md \in Orders :
          LET data == certificateData(env, "id1", "t1", w)
          IN  fn = [NoFn EXCEPT !.in = data,
                                !.other = Rebuilt(data, top, wd, md)]

NextCanon ==
    \/ CanonHash
    \/ CanonSign

SpecCanon == InitCanon /\ [][NextCanon]_vars

(***************************************************************************)
(* utils/validation.js: validateWipeData and validateBusinessRules, and    *)
(* the duration generateCertificate derives for a record they accept.      *)
(***************************************************************************)
\* a number that is no integer, n/d
Frac(n, d) == <<"frac", n, d>>

Err(field, message) == [field |-> field, message |-> message]

\* Joi.string().required()
requiredString(field, v) ==
    IF v = Undef THEN <<Err(field, "any.required")>>
    ELSE IF v[1] # "str" THEN <<Err(field, "string.base")>>
    ELSE IF v[2] = "" THEN <<Err(field, "string.empty")>>
    ELSE << >>

\* Joi.string().valid(...).required()
requiredOneOf(field, v, allowed) ==
    IF v = Undef THEN <<Err(field, "any.required")>>
    ELSE IF v[1] = "str" /\ v[2] \in allowed THEN << >>
    ELSE <<Err(field, "any.only")>>

\* Joi.number().integer().min(1).max(35).required()
requiredPasses(field, v) ==
    IF v = Undef THEN <<Err(field, "any.required")>>
    ELSE IF v[1] = "frac" THEN <<Err(field, "number.integer")>>
    ELSE IF v[1] # "num" THEN <<Err(field, "number.base")>>
    ELSE IF v[2] < 1 THEN <<Err(field, "number.min")>>
    ELSE IF v[2] > 35 THEN <<Err(field, "number.max")>>
    ELSE << >>

\* Joi.string().isoDate().required(): an ISO date is held as the epoch
\* milliseconds it stands for
requiredIsoDate(field, v) ==
    IF v = Undef THEN <<Err(field, "any.required")>>
    ELSE IF v[1] # "num" THEN <<Err(field, "string.isoDate")>>
    ELSE << >>

\* Joi.boolean().optional()
optionalBoolean(field, v) ==
    IF v = Undef \/ v[1] = "bool" THEN << >>
    ELSE <<Err(field, "boolean.base")>>

\* Joi.string().optional()
optionalString(field, v) ==
    IF v = Undef \/ v[1] = "str" THEN << >>
    ELSE <<Err(field, "string.base")>>

\* wipeDataSchema.validate(data, {abortEarly: false, ...}): error.details
schemaErrors(data) ==
    requiredString("deviceId", data.deviceId)
    \o requiredString("serialNumber", data.serialNumber)
    \o requiredOneOf("algorithm", data.algorithm,
                     {"nist", "dod", "gutmann", "random"})
    \o requiredPasses("passes", data.passes)
    \o requiredIsoDate("startTime", data.startTime)
    \o requiredIsoDate("endTime", data.endTime)
    \o requiredOneOf("status", data.status, {"success", "failed", "partial"})
    \o optionalBoolean("verification", data.verification)
    \o optionalString("submissionId", data.submissionId)
    \o optionalString("submissionTime", data.submissionTime)
    \o optionalString("serverVersion", data.serverVersion)
    \o optionalString("coreEngineVersion", data.coreEngineVersion)
    \o optionalString("ipAddress", data.ipAddress)

\* if (endTime <= startTime) ...
endTimeRule(data) ==
    IF data.endTime[2] <= data.startTime[2]
    THEN <<Err("endTime", "End time must be after start time")>>
    ELSE << >>

\* durationRules with the lower limit itself refused
durationRulesStrict(data) ==
    LET durationMs == data.endTime[2] - data.startTime[2]
    IN  (IF durationMs <= (1000 * 60) \div 10
         THEN <<Err("duration", "Wipe duration seems too short to be valid")>>
         ELSE << >>)
        \o (IF durationMs > 10080 * (1000 * 60)
            THEN <<Err("duration", "Wipe duration seems too long to be valid")>>
            ELSE << >>)

\* durationMinutes = durationMs / (1000 * 60); if (durationMinutes < 0.1) ...;
\* if (durationMinutes > 10080) ...   (in whole milliseconds)
durationRules(data) ==
    LET durationMs == data.endTime[2] - data.startTime[2]
    IN  (IF durationMs < (1000 * 60) \div 10
         THEN <<Err("duration", "Wipe duration seems too short to be valid")>>
         ELSE << >>)
        \o (IF durationMs > 10080 * (1000 * 60)
            THEN <<Err("duration", "Wipe duration seems too long to be valid")>>
            ELSE << >>)

\* algorithmRules without the rule for dod
algorithmRulesNoDod(data) ==
    IF data.algorithm = Str("gutmann") /\ data.passes # Num(35)
    THEN <<Err("passes", "Gutmann algorithm requires exactly 35 passes")>>
    ELSE << >>

\* if (data.algorithm === 'gutmann' && data.passes !== 35) ...;
\* if (data.algorithm === 'dod' && data.passes !== 3) ...
algorithmRules(data) ==
    (IF data.algorithm = Str("gutmann") /\ data.passes # Num(35)
     THEN <<Err("passes", "Gutmann algorithm requires exactly 35 passes")>>
     ELSE << >>)
    \o (IF data.algorithm = Str("dod") /\ data.passes # Num(3)
        THEN <<Err("passes",
                   "DoD 5220.22-M algorithm typically requires 3 passes")>>
        ELSE << >>)

\* the characters of the device ids submitted
Spelling(s) ==
    CASE s = "dev-1" -> <<"d", "e", "v", "-", "1">>
      [] s = "dev-2" -> <<"d", "e", "v", "-", "2">>
      [] s = "dev 1" -> <<"d", "e", "v", " ", "1">>
      [] s = "" -> << >>
\* [a-zA-Z0-9_-]
IdChars ==
    {"a", "b", "c", "d", "e", "f", "g", "h", "i", "j", "k", "l", "m",
     "n", "o", "p", "q", "r", "s", "t", "u", "v", "w", "x", "y", "z",
     "A", "B", "C", "D", "E", "F", "G", "H", "I", "J", "K", "L", "M",
     "N", "O", "P", "Q", "R", "S", "T", "U", "V", "W", "X", "Y", "Z",
     "0", "1", "2", "3", "4", "5", "6", "7", "8", "9", "_", "-"}

\* if (!/^[a-zA-Z0-9_-]+$/.test(data.deviceId)) ...
deviceIdRule(data) ==
    LET chars == Spelling(data.deviceId[2])
    IN  IF Len(chars) > 0 /\ \A i \in 1..Len(chars) : chars[i] \in IdChars
        THEN << >>
        ELSE <<Err("deviceId",
                   "Device ID should contain only alphanumeric characters, hyphens, and underscores")>>

\* validateBusinessRules(data): data is null unless the record is valid
validateBusinessRules(data) ==
    LET errors == endTimeRule(data) \o durationRules(data)
                  \o algorithmRules(data) \o deviceIdRule(data)
    IN  [isValid |-> Len(errors) = 0, errors |-> errors,
         data |-> IF Len(errors) = 0 THEN <<data>> ELSE << >>]

\* validateWipeData(data)
validateWipeData(data) ==
    LET details == schemaErrors(data)
    IN  IF Len(details) > 0
        THEN [isValid |-> FALSE, errors |-> details, data |-> << >>]
        ELSE IF ~validateBusinessRules(data).isValid
        THEN validateBusinessRules(data)
        ELSE [isValid |-> TRUE, errors |-> << >>, data |-> <<data>>]

\* The records submitted: req.body with the fields the submit route adds.
StartEnd ==
    { <<Num(1000), Num(0)>>, <<Num(0), Num(0)>>, <<Num(0), Num(5999)>>,
      <<Num(0), Num(6000)>>, <<Num(1000), Num(43000)>>, <<Num(0), Num(42500)>>,
      <<Num(0), Num(90000)>>, <<Num(0), Num(3661000)>>,
      <<Num(0), Num(604800000)>>, <<Num(0), Num(604800001)>>,
      <<Num(0), Undef>> }
Submitted ==
    { [deviceId |-> dv, serialNumber |-> sn, algorithm |-> al, passes |-> ps,
       startTime |-> se[1], endTime |-> se[2], status |-> st,
       verification |-> Undef, submissionId |-> Str("sub-1"),
       serverVersion |-> Str("1.0.0"), coreEngineVersion |-> Undef,
       submissionTime |-> Str("s1"), ipAddress |-> Str("10.0.0.1")] :
      dv \in {Str("dev-1"), Str("dev 1"), Undef},
      sn \in {Str("SN1"), Undef},
      al \in {Str("nist"), Str("dod"), Str("gutmann"), Str("random"),
              Str("aes")},
      ps \in {Num(1), Num(3), Num(5), Num(34), Num(35), Num(36), Frac(7, 2)},
      se \in StartEnd,
      st \in {Str("success"), Str("failed")} }

\* const validationResult = validateWipeData(wipeData)
Validate ==
    /\ "validate" \notin fn.done
    /\ fn' = [fn EXCEPT !.done = @ \cup {"validate"},
                        !.result = validateWipeData(fn.in)]
    /\ PureFrame

\* if (wipeData.status === 'success') generateCertificate(wipeData): the
\* wipeDetails.duration of the certificateData it builds
DeriveDuration ==
    /\ "validate" \in fn.done
    /\ "derive" \notin fn.done
    /\ fn.result.isValid
    /\ fn.in.status = Str("success")
    /\ fn' = [fn EXCEPT
                !.done = @ \cup {"derive"},
                !.duration =
                   Get(Get(certificateData(env, "id1", "t1", fn.in)[2],
                           "wipeDetails")[2], "duration")]
    /\ PureFrame

InitValidate ==
    /\ env = {}
    /\ provider = detectProvider(env)
    /\ keyFiles = [private |-> OldKey, public |-> OldKey]
    /\ kms = [p \in Procs |-> ReadyKms(OldKey)]
    /\ keyLog = {}
    /\ file = [i \in Ids |-> AbsentFile]
    /\ pdf = [i \in Ids |-> "absent"]
    /\ gen = [c \in Slots |-> IdleCall]
    /\ busy = 0
    /\ issues = 0
    /\ tampers = 0
    /\ tampered = [i \in Ids |-> {}]
    /\ vres = NoVerify
    /\ resp = NoResponse
    /\ req = NoRequest
    /\ uploads = {}
    /\ log = warned(provider)
    /\ \E w \in Submitted : fn = [NoFn EXCEPT !.in = w]

NextValidate ==
    \/ Validate
    \/ DeriveDuration

SpecValidate == InitValidate /\ [][NextValidate]_vars

(***************************************************************************)
(* Certificates for uploaded wipe reports: POST /upload validates the      *)
(* report, sets submissionId, submissionTime and uploadedFile, and calls   *)
(* generateCertificate; serverVersion and ipAddress are not set.           *)
(***************************************************************************)
Uploaded ==
    {[w EXCEPT !.serverVersion = Undef, !.ipAddress = Undef] : w \in WipeRecords}

GenStartUpload(c, wipeData, certificateId, timestamp) ==
    /\ wipeData \in Uploaded
    /\ GenStartAlone(c, wipeData, certificateId, timestamp)

NextUpload ==
    \/ \E c \in Slots, w \in Uploaded, i \in Ids, t \in Timestamps :
          GenStartUpload(c, w, i, t)
    \/ \E c \in Slots, o \in {"ok", "error"} : GenSignReturn(c, o)
    \/ \E c \in Slots : GenQrReturn(c)
    \/ \E c \in Slots : GenQrError(c)
    \/ \E c \in Slots : GenPdfError(c)
    \/ \E c \in Slots : GenPdfFinish(c)
    \/ \E c \in Slots : GenWriteEnd(c)
    \/ \E c \in Slots : GenWriteError(c)
    \/ \E i \in Ids, o \in {"ok", "error"} : VerifyCertificate(i, o)

SpecUpload == Init /\ [][NextUpload]_vars

(***************************************************************************)
(* The wipe routes POST /submit and POST /upload, one request at a time.   *)
(* resp.body is data.certificate of a 200 answer and the error text of     *)
(* any other answer.                                                       *)
(***************************************************************************)
MaxRequests == 2

Null == <<"null">>

\* req.body of POST /submit, and the parsed content of the file uploaded
Reports ==
    { [deviceId |-> dv, serialNumber |-> Str("SN1"), algorithm |-> al,
       passes |-> Num(3), startTime |-> se[1], endTime |-> se[2],
       status |-> st, verification |-> Undef, submissionId |-> Undef,
       serverVersion |-> Undef, coreEngineVersion |-> Undef,
       submissionTime |-> Undef, ipAddress |-> Undef] :
      dv \in {Str("dev-1"), Undef},
      al \in {Str("dod"), Str("gutmann")},
      se \in {<<Num(0), Num(90000)>>, <<Num(1000), Num(0)>>},
      st \in {Str("success"), Str("failed"), Str("partial")} }

\* uuidv4() of the n-th request
SubmissionId(n) == Str(<<"sub", n>>)

\* POST /submit: wipeData.submissionId = ..., submissionTime, serverVersion,
\* ipAddress
withServerMetadata(wipeData, n) ==
    [wipeData EXCEPT !.submissionId = SubmissionId(n),
                     !.submissionTime = Str("s1"),
                     !.serverVersion = Str("1.0.0"),
                     !.ipAddress = Str("10.0.0.1")]

\* POST /upload: wipeData.submissionId = ..., submissionTime (uploadedFile
\* is not read by generateCertificate)
withUploadMetadata(wipeData, n) ==
    [wipeData EXCEPT !.submissionId = SubmissionId(n),
                     !.submissionTime = Str("s1")]

\* uploads/wipe-<submissionId>.json and the file multer stores
SubmissionFile(n) == <<"wipe", n>>
ReportFile(n) == <<"wipeReport", n>>

\* what generateCertificate returns
Certificate(certificateId) == <<"certificate", certificateId>>

\* certificateData = { error: 'Certificate generation failed' }
ErrorPlaceholder == Obj(<< <<"error", Str("Certificate generation failed")>> >>)

Answer(route, n, status, body) ==
    [route |-> route, id |-> n, status |-> status, certificates |-> {},
     body |-> body]

\* a request arrives: the handler runs from its first line
Arrives(route, wipeData) ==
    /\ req.pc = "idle"
    /\ req.served < MaxRequests
    /\ req' = [NoRequest EXCEPT !.route = route, !.wipeData = wipeData,
                                !.served = req.served + 1]

RouteFrame ==
    /\ vres' = NoVerify
    /\ UNCHANGED <<env, provider, keyFiles, kms, keyLog, file, pdf, gen, busy,
                   issues, tampers, tampered, log, fn>>

\* POST /submit.  The first statement of the try block calls
\* validationResult(req) while the const validationResult that the same
\* block declares further down is not initialised: a ReferenceError, which
\* the catch of the handler answers with 500.
Submit(wipeData) ==
    /\ Arrives("submit", wipeData)
    /\ resp' = Answer("submit", req.served + 1, 500,
                      Str("Internal server error"))
    /\ UNCHANGED uploads
    /\ RouteFrame

\* POST /upload without a file
UploadNoFile ==
    /\ Arrives("upload", NoWipeData)
    /\ resp' = Answer("upload", req.served + 1, 400, Str("No file uploaded"))
    /\ UNCHANGED uploads
    /\ RouteFrame

\* POST /upload, JSON.parse throws: the file multer stored is removed
UploadBadJson ==
    /\ Arrives("upload", NoWipeData)
    /\ resp' = Answer("upload", req.served + 1, 400,
                      Str("Invalid JSON format"))
    /\ uploads' = (uploads \cup {ReportFile(req.served + 1)})
                     \ {ReportFile(req.served + 1)}
    /\ RouteFrame

\* POST /upload, validateWipeData refuses: the file multer stored is removed
UploadRejected(wipeData) ==
    /\ ~validateWipeData(wipeData).isValid
    /\ Arrives("upload", wipeData)
    /\ resp' = Answer("upload", req.served + 1, 400,
                      Str("Invalid wipe data format"))
    /\ uploads' = (uploads \cup {ReportFile(req.served + 1)})
                     \ {ReportFile(req.served + 1)}
    /\ RouteFrame

\* POST /upload of a valid report whose status is not 'success'
UploadStored(wipeData) ==
    /\ validateWipeData(wipeData).isValid
    /\ wipeData.status # Str("success")
    /\ Arrives("upload", wipeData)
    /\ resp' = Answer("upload", req.served + 1, 200, Null)
    /\ uploads' = uploads \cup {ReportFile(req.served + 1)}
    /\ RouteFrame

\* UploadCertify without the test of wipeData.status
UploadCertifyAnyStatus(c, wipeData, certificateId, timestamp) ==
    /\ validateWipeData(wipeData).isValid
    /\ req.pc = "idle"
    /\ req.served < MaxRequests
    /\ busy = 0
    /\ gen[c].pc \notin InFlight
    /\ \A d \in Slots : d < c => gen[d].pc \in InFlight
    /\ issues < MaxIssues
    /\ issues' = issues + 1
    /\ gen' = [gen EXCEPT ![c] =
                [pc |-> "sign", id |-> certificateId,
                 data |-> WithDataHash(
                     certificateData(env, certificateId, timestamp,
                        withUploadMetadata(wipeData, req.served + 1)))]]
    /\ req' = [pc |-> "certifying", route |-> "upload",
               wipeData |-> wipeData, slot |-> c, served |-> req.served + 1]
    /\ uploads' = uploads \cup {ReportFile(req.served + 1)}
    /\ resp' = NoResponse
    /\ vres' = NoVerify
    /\ UNCHANGED <<env, provider, keyFiles, kms, keyLog, file, pdf, busy,
                   tampers, tampered, log, fn>>

\* POST /upload of a valid report with status 'success': the handler awaits
\* generateCertificate(wipeData), which runs to its await of signData
UploadCertify(c, wipeData, certificateId, timestamp) ==
    /\ validateWipeData(wipeData).isValid
    /\ wipeData.status = Str("success")
    /\ req.pc = "idle"
    /\ req.served < MaxRequests
    /\ busy = 0
    /\ gen[c].pc \notin InFlight
    /\ \A d \in Slots : d < c => gen[d].pc \in InFlight
    /\ issues < MaxIssues
    /\ issues' = issues + 1
    /\ gen' = [gen EXCEPT ![c] =
                [pc |-> "sign", id |-> certificateId,
                 data |-> WithDataHash(
                     certificateData(env, certificateId, timestamp,
                        withUploadMetadata(wipeData, req.served + 1)))]]
    /\ req' = [pc |-> "certifying", route |-> "upload",
               wipeData |-> wipeData, slot |-> c, served |-> req.served + 1]
    /\ uploads' = uploads \cup {ReportFile(req.served + 1)}
    /\ resp' = NoResponse
    /\ vres' = NoVerify
    /\ UNCHANGED <<env, provider, keyFiles, kms, keyLog, file, pdf, busy,
                   tampers, tampered, log, fn>>

\* generateCertificate has returned or thrown: the catch only logs, and
\* certificateData stays null
UploadFinish ==
    /\ req.pc = "certifying"
    /\ gen[req.slot].pc \in {"done", "failed"}
    /\ resp' = Answer("upload", req.served, 200,
                      IF gen[req.slot].pc = "done"
                      THEN Certificate(gen[req.slot].id) ELSE Null)
    /\ req' = [req EXCEPT !.pc = "idle", !.slot = 0]
    /\ UNCHANGED uploads
    /\ RouteFrame

NextRoutes ==
    \/ \E w \in Reports : Submit(w)
    \/ UploadNoFile
    \/ UploadBadJson
    \/ \E w \in Reports : UploadRejected(w)
    \/ \E w \in Reports : UploadStored(w)
    \/ \E c \in Slots, w \in Reports, i \in Ids, t \in Timestamps :
          UploadCertify(c, w, i, t)
    \/ UploadFinish
    \/ \E c \in Slots, o \in {"ok", "error"} : GenSignReturn(c, o)
    \/ \E c \in Slots : GenQrReturn(c)
    \/ \E c \in Slots : GenQrError(c)
    \/ \E c \in Slots : GenPdfError(c)
    \/ \E c \in Slots : GenPdfFinish(c)
    \/ \E c \in Slots : GenWriteEnd(c)
    \/ \E c \in Slots : GenWriteError(c)

SpecRoutes == Init /\ [][NextRoutes]_vars

(***************************************************************************)
(* The data hash of two payloads that differ in one field.                 *)
(***************************************************************************)
TopFields == {"certificateId", "timestamp", "issuer"}
WipeDetailsFields ==
    {"deviceId", "serialNumber", "algorithm", "passes", "startTime",
     "endTime", "duration", "status", "verification", "submissionId"}
MetadataFields ==
    {"serverVersion", "coreEngineVersion", "submissionTime", "ipAddress"}

\* certificateData with another value in one field: at the top, inside
\* wipeDetails or inside metadata
Changed(data, part, field) ==
    Obj(CASE part = "top" -> SetProp(data[2], field, Str("another"))
          [] part = "wipeDetails" ->
                SetNested(data[2], "wipeDetails", field, Str("another"))
          [] part = "metadata" ->
                SetNested(data[2], "metadata", field, Str("another")))

InitHash ==
    /\ env = {}
    /\ provider = detectProvider(env)
    /\ keyFiles = [private |-> OldKey, public |-> OldKey]
    /\ kms = [p \in Procs |-> ReadyKms(OldKey)]
    /\ keyLog = {}
    /\ file = [i \in Ids |-> AbsentFile]
    /\ pdf = [i \in Ids |-> "absent"]
    /\ gen = [c \in Slots |-> IdleCall]
    /\ busy = 0
    /\ issues = 0
    /\ tampers = 0
    /\ tampered = [i \in Ids |-> {}]
    /\ vres = NoVerify
    /\ resp = NoResponse
    /\ req = NoRequest
    /\ uploads = {}
    /\ log = warned(provider)
    /\ \E w \in WipeRecords,
          pf \in ({"top"} \X TopFields) \cup ({"wipeDetails"} \X WipeDetailsFields)
                   \cup ({"metadata"} \X MetadataFields) :
          LET data == certificateData(env, "id1", "t1", w)
          IN  fn = [NoFn EXCEPT !.in = data,
                                !.other = Changed(data, pf[1], pf[2])]

SpecHash == InitHash /\ [][NextCanon]_vars

(***************************************************************************)
(* The claims.                                                             *)
(***************************************************************************)
\* the verifyCertificate call that has just returned read a whole file
LoadedWhole == vres.called /\ vres.loaded.state = "complete"
\* ... that is as generateCertificate wrote it
LoadedAsIssued == LoadedWhole /\ vres.tampered = {}

\* C1: verifying a certificate that generateCertificate issued and nobody
\* changed, the provider answering, returns valid: true.
C1_RoundTrip ==
    (LoadedAsIssued /\ vres.outcome = "ok") => vres.result.valid

\* C2: a stored certificate whose wipeDetails, metadata, timestamp or issuer
\* was changed (dataHash and signature as issued) verifies as valid: false
\* with 'Data integrity check failed'.
C2_DataTamperDetected ==
    (LoadedWhole /\ vres.tampered # {} /\ vres.tampered \subseteq DataFields
       /\ vres.outcome = "ok")
    => (~vres.result.valid /\ vres.result.error = "Data integrity check failed")

\* C3 as claimed: any change of the stored signature field alone verifies as
\* valid: false with 'Invalid signature'.
C3_SignatureFieldChanged ==
    (LoadedWhole /\ vres.tampered # {}
       /\ vres.tampered \subseteq {"signature", "signatureEncoding"})
    => (~vres.result.valid /\ vres.result.error = "Invalid signature")

\* C3 as amended: a stored signature changed to other signature bytes (every
\* other field as issued) verifies as valid: false with 'Invalid signature'.
C3_SignatureBytesChanged ==
    (LoadedWhole /\ vres.tampered = {"signature"})
    => (~vres.result.valid /\ vres.result.error = "Invalid signature")

C3_Witness ==
    /\ LoadedWhole
    /\ vres.tampered = {"signature"}
    /\ vres.outcome = "ok"
    /\ vres.result.error = "Invalid signature"

\* C4: verifying an id with no stored certificate returns valid: false with
\* 'Certificate not found', throws nothing and does not call the provider.
C4_NotFound ==
    (vres.called /\ vres.loaded.state = "absent")
    => /\ ~vres.result.valid
       /\ vres.result.error = "Certificate not found"
       /\ ~vres.result.threw
       /\ ~vres.result.kmsCalled

C4_Witness ==
    /\ vres.called
    /\ vres.loaded.state = "absent"
    /\ vres.result.error = "Certificate not found"
    /\ \E i \in Ids : file[i].state = "complete"

\* C5: a reader never finds an incomplete <id>.json: the file it loads is
\* absent or whole.
C5_NoPartialObserved ==
    vres.called => vres.loaded.state \in {"absent", "complete"}

\* a stored text all of whose parts come from the one generateCertificate
\* call for id: the fields of one record, their hash, and the signature of
\* the fields with the hash
FromOneCall(id, text) ==
    LET props == text[2]
        signed == Obj(DeleteProp(props, "signature"))
        fields == Obj(DeleteProp(signed[2], "dataHash"))
    IN  /\ Get(props, "certificateId") = Str(id)
        /\ \E w \in WipeRecords, t \in Timestamps :
              fields = Stringify(certificateData(env, id, t, w))
        /\ Get(props, "dataHash") = generateDataHash(fields)
        /\ Get(props, "signature") =
              ToBase64(RsaSign(SigningKey(provider, kms["p1"]), signed))

\* C6: whatever the interleaving of generateCertificate calls, every whole
\* <id>.json holds the data of exactly one call.
C6_FilesFromOneCall ==
    \A i \in Ids : file[i].state = "complete" => FromOneCall(i, file[i].data)

\* the second call started while the first was in flight and has written its
\* file, the first is still in flight, signed, for another record
C6_Witness ==
    /\ gen[2].pc = "done"
    /\ file[gen[2].id].state = "complete"
    /\ gen[1].pc \in {"qr", "pdf"}
    /\ gen[1].id # gen[2].id
    /\ Get(Get(gen[1].data[2], "wipeDetails")[2], "deviceId")
         # Get(Get(file[gen[2].id].data[2], "wipeDetails")[2], "deviceId")

\* the key directory held no key when the processes started
EmptyKeyDirAtStart ==
    /\ keyFiles.private # OldKey
    /\ keyFiles.public # OldKey
    /\ \A w \in keyLog : w[3] # OldKey

\* C7: of the processes that initialize the local keys on an empty key
\* directory at most one writes, nothing written is overwritten, and the two
\* files end up as one pair.
C7_OneKeyWriter ==
    EmptyKeyDirAtStart
    => /\ Cardinality({w[1] : w \in keyLog}) <= 1
       /\ \A w \in keyLog : w[3] = NoKey
       /\ (\A p \in Procs : kms[p].pc = "ready")
             => keyFiles.private = keyFiles.public

\* C8: when the provider's verify call fails, verifyCertificate does not
\* answer 'Invalid signature'.
C8_FailureIsNotInvalid ==
    (vres.called /\ vres.outcome = "error")
    => vres.result.error # "Invalid signature"

\* C9: verifyCertificate changes nothing that is stored, a payload it returns
\* carries signature and dataHash, and a second call on the same file gives
\* the same verdict and reason.
C9_VerifyIsRepeatableRead ==
    [][vres'.called =>
         /\ file' = file /\ pdf' = pdf /\ keyFiles' = keyFiles
         /\ vres'.result.valid =>
               /\ Has(vres'.result.certificateData[2], "signature")
               /\ Has(vres'.result.certificateData[2], "dataHash")
         /\ (vres.called /\ vres'.id = vres.id /\ vres'.loaded = vres.loaded)
               => /\ vres'.result.valid = vres.result.valid
                  /\ vres'.result.error = vres.result.error]_vars

\* C10: a generateCertificate call that comes to store its certificate under
\* an id that has a stored certificate fails and leaves that certificate as
\* it is.
C10_OverwriteNever ==
    [][\A c \in Slots :
         (gen[c].pc = "pdf" /\ gen'[c].pc \in {"writing", "done", "failed"}
            /\ file[gen[c].id].state = "complete")
         => /\ gen'[c].pc = "failed"
            /\ file'[gen[c].id] = file[gen[c].id]]_vars

\* the first of aws, gcp, azure whose required settings are all present
FirstFullyConfigured(e) ==
    IF RequiredSettings("aws") \subseteq e THEN "aws"
    ELSE IF RequiredSettings("gcp") \subseteq e THEN "gcp"
    ELSE IF RequiredSettings("azure") \subseteq e THEN "azure"
    ELSE "local"

\* a signature has been made
SomethingSigned == \E c \in Slots : Has(gen[c].data[2], "signature")

\* C11: the provider selected is the first of aws, gcp, azure that is fully
\* configured, local exactly when none is, and with local the warning is in
\* the log before anything is signed.
C11_FirstFullyConfigured ==
    provider # "none"
    => /\ provider = FirstFullyConfigured(env)
       /\ (provider = "local" /\ SomethingSigned)
             => LocalWarning \in Range(log)

\* C12: a payload and the same payload built in another key order, at the
\* top or inside wipeDetails or metadata, give the same hashed bytes, the
\* same dataHash and the same signed bytes.
C12_OrderIndependent ==
    /\ "hash" \in fn.done
          => /\ fn.hashed.a[2] = fn.hashed.b[2]
             /\ fn.hashed.a = fn.hashed.b
    /\ "sign" \in fn.done => fn.signed.a = fn.signed.b

\* the fields the business rules read hold values of their types
WellTyped(d) ==
    /\ d.startTime[1] = "num" /\ d.endTime[1] = "num"
    /\ d.passes[1] = "num" /\ d.algorithm[1] = "str" /\ d.deviceId[1] = "str"

\* every violation of the record d, of the schema and of the business rules
Violations(d) ==
    Range(schemaErrors(d))
    \cup (IF WellTyped(d) THEN Range(validateBusinessRules(d).errors) ELSE {})

\* C13: the errors validateWipeData returns hold every violation of the
\* record, those of the schema together with those of the business rules.
C13_AllViolationsReported ==
    "validate" \in fn.done => Violations(fn.in) \subseteq Range(fn.result.errors)

\* the record is accepted once its algorithm and passes are put right
ValidButPasses(d) ==
    validateWipeData([d EXCEPT !.algorithm = Str("nist"),
                               !.passes = Num(1)]).isValid

\* C14: a record valid but for algorithm and passes, with one of the four
\* algorithms and passes in 1..35, is accepted exactly when gutmann comes
\* with 35 passes and dod with 3; nist and random are accepted with any.
C14_AlgorithmPasses ==
    ( /\ "validate" \in fn.done
      /\ ValidButPasses(fn.in)
      /\ fn.in.algorithm \in
            {Str("nist"), Str("dod"), Str("gutmann"), Str("random")}
      /\ fn.in.passes \in {Num(n) : n \in 1..35} )
    => ( fn.result.isValid
         <=> /\ fn.in.algorithm = Str("gutmann") => fn.in.passes = Num(35)
             /\ fn.in.algorithm = Str("dod") => fn.in.passes = Num(3) )

\* gutmann with 34 passes has been refused, for that reason alone
C14_Witness ==
    /\ "validate" \in fn.done
    /\ ValidButPasses(fn.in)
    /\ fn.in.algorithm = Str("gutmann")
    /\ fn.in.passes = Num(34)
    /\ ~fn.result.isValid
    /\ fn.result.errors =
          <<Err("passes", "Gutmann algorithm requires exactly 35 passes")>>

\* the record is accepted once its times are put right
ValidButTimes(d) ==
    validateWipeData([d EXCEPT !.startTime = Num(0),
                               !.endTime = Num(42000)]).isValid

\* C15: a record valid but for its times is accepted exactly when endTime -
\* startTime lies between 6 seconds and 7 days, both included (so never with
\* endTime <= startTime), and an accepted record is returned as it was given.
C15_DurationWindow ==
    ( /\ "validate" \in fn.done
      /\ ValidButTimes(fn.in)
      /\ fn.in.startTime[1] = "num"
      /\ fn.in.endTime[1] = "num" )
    => LET durationMs == fn.in.endTime[2] - fn.in.startTime[2]
       IN  /\ fn.result.isValid
                <=> (6 * 1000 <= durationMs
                       /\ durationMs <= 7 * 24 * 3600 * 1000)
           /\ fn.result.isValid => fn.result.data = <<fn.in>>

\* a NIST wipe of 3 passes that lasted 42 seconds has been accepted
C15_Witness ==
    /\ "validate" \in fn.done
    /\ fn.in.algorithm = Str("nist")
    /\ fn.in.passes = Num(3)
    /\ fn.in.startTime = Num(1000)
    /\ fn.in.endTime = Num(43000)
    /\ fn.result.isValid

\* 'Hh Mm Ss', 'Mm Ss' or 'Ss' of T whole seconds
DurationText(T) ==
    LET H == T \div 3600
        M == (T \div 60) % 60
        S == T % 60
    IN  IF H > 0 THEN Str(<<H, "h ", M, "m ", S, "s">>)
        ELSE IF M > 0 THEN Str(<<M, "m ", S, "s">>)
        ELSE Str(<<S, "s">>)

\* C16: the wipeDetails.duration derived for a validated record is the text
\* of T = floor((endTime - startTime) / 1000 ms) whole seconds; 90 seconds
\* give '1m 30s'.
C16_DurationString ==
    "derive" \in fn.done
    => LET ms == fn.in.endTime[2] - fn.in.startTime[2]
       IN  /\ fn.duration = DurationText(ms \div 1000)
           /\ ms = 90000 => fn.duration = Str(<<1, "m ", 30, "s">>)

C16_Witness ==
    /\ "derive" \in fn.done
    /\ fn.in.endTime[2] - fn.in.startTime[2] = 90000
    /\ fn.duration = Str(<<1, "m ", 30, "s">>)

\* C17: whatever is done (certificates issued, verified, downloaded, listed),
\* a stored certificate stays in its file as it was stored: no field of it
\* changes and the file is not removed.
C17_ReadOnlyOncePersisted ==
    [][\A i \in Ids :
         file[i].state = "complete" => file'[i] = file[i]]_vars

\* a value JSON has no text for: undefined, or a number that is no integer,
\* anywhere in v
RECURSIVE Unsupported(_)
Unsupported(v) ==
    \/ v = Undef
    \/ v[1] = "frac"
    \/ /\ IsObj(v)
       /\ \E i \in 1..Len(v[2]) : Unsupported(v[2][i][2])

\* C18: a generateCertificate call whose payload holds a value with no
\* canonical form ends with an error before anything is signed or stored: no
\* call with such a payload is in flight.
C18_UnsupportedRefused ==
    \A c \in Slots : Unsupported(gen[c].data) => gen[c].pc \notin InFlight

\* the digest verifyCertificate recomputes differs from the stored dataHash
DigestDiffers(f) ==
    generateDataHash(dataToVerify(JSONparse(f.data)))
       # Get(JSONparse(f.data)[2], "dataHash")

\* C19: when the digest recomputed from a stored certificate that was changed
\* differs from the stored dataHash, verifyCertificate answers 'Data
\* integrity check failed' and has not called the provider's verify.
C19_DigestBeforeProvider ==
    (LoadedWhole /\ vres.tampered # {} /\ DigestDiffers(vres.loaded))
    => /\ vres.result.error = "Data integrity check failed"
       /\ ~vres.result.kmsCalled

\* the text generateCertificate hashed for the stored certificate (the stored
\* dataHash is its digest), and the text verifyCertificate hashes
HashedAtIssuance(f) == Get(JSONparse(f.data)[2], "dataHash")[2]
HashedAtVerification(f) == generateDataHash(dataToVerify(JSONparse(f.data)))[2]

\* C20: for a certificate as issued, the fields verifyCertificate hashes are
\* the fields generateCertificate hashed, dataHash and signature left out,
\* and the hashed text is the same.
C20_SameFieldsHashed ==
    (LoadedAsIssued /\ vres.result.kmsCalled /\ vres.outcome = "ok")
    => /\ KeysOf(HashedAtVerification(vres.loaded)[2])
            = KeysOf(HashedAtIssuance(vres.loaded)[2])
       /\ "dataHash" \notin Range(KeysOf(HashedAtVerification(vres.loaded)[2]))
       /\ HashedAtVerification(vres.loaded) = HashedAtIssuance(vres.loaded)

\* C21: two payloads that differ in certificateId, timestamp or issuer, or in
\* a field inside wipeDetails or metadata, have different data hashes.
C21_HashCoversEveryField ==
    ("hash" \in fn.done /\ fn.in # fn.other) => fn.hashed.a # fn.hashed.b

\* C22: a stored certificate whose dataHash alone was changed verifies as
\* valid: false, the signature no longer matching: 'Invalid signature'.
C22_SignatureCoversDataHash ==
    (LoadedWhole /\ vres.tampered = {"dataHash"})
    => (~vres.result.valid /\ vres.result.error = "Invalid signature")

C22_Witness ==
    /\ LoadedWhole
    /\ vres.tampered = {"dataHash"}
    /\ vres.outcome = "ok"
    /\ ~vres.result.valid
    /\ vres.result.error = "Invalid signature"

\* C23: a generateCertificate call that failed has left neither <id>.json
\* nor <id>.pdf for its id.
C23_FailureLeavesNothing ==
    \A c \in Slots :
       gen[c].pc = "failed"
       => /\ file[gen[c].id].state = "absent"
          /\ pdf[gen[c].id] = "absent"

\* C24: verifying a stored certificate that was modified, whatever the
\* modification, answers valid: false with 'Data integrity check failed' or
\* 'Invalid signature', and throws nothing.
C24_SpecificReason ==
    (vres.called /\ vres.tampered # {})
    => /\ ~vres.result.valid
       /\ vres.result.error
             \in {"Data integrity check failed", "Invalid signature"}
       /\ ~vres.result.threw

\* C26: whatever the key directory holds when a process starts (no key file,
\* one of the two, or both), initializeLocalKeys writes no key file that
\* exists: every write found no file in its place, so a key that was in the
\* directory is still the one in use.
C26_KeyFilesWrittenOnce ==
    \A w \in keyLog : w[3] = NoKey

\* C28: a call that comes to store its certificate does so under an id that
\* no stored certificate has, and a stored payload carries the id of its file.
C28_FreshCertificateId ==
    [][/\ \A c \in Slots :
            (gen[c].pc = "pdf" /\ gen'[c].pc = "writing")
            => file[gen[c].id].state # "complete"
       /\ \A i \in Ids :
            file'[i].state = "complete"
            => Get(file'[i].data[2], "certificateId") = Str(i)]_vars

\* C27: once the KMSService is constructed, no step changes its provider or
\* its keys, whatever becomes of the settings; a signature made is that of
\* the provider chosen at construction, and so is the public key given out.
C27_ProviderFixed ==
    [][provider # "none"
       => /\ provider' = provider
          /\ kms' = kms
          /\ keyFiles' = keyFiles
          /\ \A c \in Slots :
                (gen[c].pc = "sign" /\ gen'[c].pc = "qr")
                => Get(gen'[c].data[2], "signature")
                     = ToBase64(RsaSign(SigningKey(provider, kms["p1"]),
                                        Stringify(gen[c].data)))
          /\ resp'.route = "public-key"
                => resp'.body = getPublicKey(provider, kms["p1"])]_vars

\* the settings now name another provider than the one chosen, and a
\* verification has just been answered by the provider chosen
C27_Witness ==
    /\ provider # "none"
    /\ detectProvider(env) # provider
    /\ vres.called
    /\ vres.result.kmsCalled
    /\ vres.outcome = "ok"

\* C25: a record with status 'success' that passes validation, submitted to
\* POST /submit, is answered 200 with a certificate or, generateCertificate
\* having failed, the error placeholder, and its submission file is stored.
C25_SubmitAnswersSuccess ==
    (/\ resp.route = "submit"
     /\ req.wipeData.status = Str("success")
     /\ validateWipeData(withServerMetadata(req.wipeData, resp.id)).isValid)
    => /\ resp.status = 200
       /\ resp.body \in {ErrorPlaceholder} \cup {Certificate(i) : i \in Ids}
       /\ SubmissionFile(resp.id) \in uploads

\* C29: generateCertificate is called only as a request begins to await it,
\* once for that request, for a record that validateWipeData accepts and
\* whose status is 'success'; every certificate stored is of such a record.
C29_CertifyOnlyValidatedSuccess ==
    [][/\ issues' # issues
          => /\ issues' = issues + 1
             /\ req.pc = "idle"
             /\ req'.pc = "certifying"
             /\ req'.served = req.served + 1
             /\ validateWipeData(req'.wipeData).isValid
             /\ req'.wipeData.status = Str("success")
       /\ \A i \in Ids :
             file'[i].state = "complete"
             => Get(Get(file'[i].data[2], "wipeDetails")[2], "status")
                  = Str("success")]_vars

\* an uploaded report of a successful wipe has been answered with the
\* certificate stored for it
C29_Witness ==
    /\ resp.route = "upload"
    /\ resp.status = 200
    /\ req.wipeData.status = Str("success")
    /\ \E i \in Ids : resp.body = Certificate(i) /\ file[i].state = "complete"

====
